---- MODULE Spec2Model ----
(***************************************************************************)
(* CoinMarketCap scraper: browser session, scroll loop, table extraction,  *)
(* and the SQL Server persistence gateway, as one sequential state machine *)
(* (src/main.py, src/scraper.py, src/database.py).                         *)
(*                                                                         *)
(* Texts are sequences of one-character strings so that str.strip(),       *)
(* str.isdigit() and int() are computed, not assumed.                      *)
(***************************************************************************)
EXTENDS Integers, Sequences, FiniteSets, TLC

\* ---------------------------------------------------------------- bounds
MaxRows == 2
MaxOps == 2
MaxClock == 1
\* a scrape or save run is started only while the table holds at most this many rows
MaxTableAtRun == 1
\* data rows of the documents of SpecBatch
MaxDocRows == 3
MaxHeight == 2
\* the oldest row found in a table that already exists is MaxAge days older
\* than day 0
MaxAge == 2
MAX_SCROLL_ATTEMPTS == 2

\* ------------------------------------------------------------------ text
Whitespace == {" "}
Digits == {"0", "1", "2", "3", "4", "5", "6", "7", "8", "9"}

RECURSIVE LStrip(_)
LStrip(s) ==
    IF s = <<>> THEN <<>>
    ELSE IF Head(s) \in Whitespace THEN LStrip(Tail(s)) ELSE s

RECURSIVE RStrip(_)
RStrip(s) ==
    IF s = <<>> THEN <<>>
    ELSE IF s[Len(s)] \in Whitespace THEN RStrip(SubSeq(s, 1, Len(s) - 1)) ELSE s

\* str.strip()
Strip(s) == RStrip(LStrip(s))

\* str.isdigit(): non-empty and every character a digit
IsDigit(s) == s /= <<>> /\ \A i \in 1..Len(s) : s[i] \in Digits

DigitVal(c) ==
    CASE c = "0" -> 0 [] c = "1" -> 1 [] c = "2" -> 2 [] c = "3" -> 3
      [] c = "4" -> 4 [] c = "5" -> 5 [] c = "6" -> 6 [] c = "7" -> 7
      [] c = "8" -> 8 [] c = "9" -> 9

\* int(text) for a text of digits
RECURSIVE ToInt(_)
ToInt(s) ==
    IF s = <<>> THEN 0
    ELSE 10 * ToInt(SubSeq(s, 1, Len(s) - 1)) + DigitVal(s[Len(s)])

\* ------------------------------------------------------- rendered documents
\* A <tr> is the sequence of the texts of its <td> cells; the header row holds
\* <th> cells only, so row.find_all('td') is empty for it.
HeaderRow == <<>>

\* 10 cells, rank " 12 ", name "BT", price "$9"
RowFull ==
    << <<>>, <<" ", "1", "2", " ">>, <<"B", "T">>, <<"$", "9">>, <<"+", "1">>,
       <<"-", "2">>, <<"+", "3">>, <<"$", "4">>, <<"$", "5">>, <<"6", " ">> >>

\* 11 cells, rank "-" (not numeric), name blank, price "$7"
RowOdd ==
    << <<>>, <<"-">>, <<" ", " ">>, <<" ", "$", "7">>, <<"0">>, <<"0">>,
       <<"0">>, <<"$", "1">>, <<"$", "2">>, <<"3">>, <<"x">> >>

\* 9 cells: one cell missing
RowShort == SubSeq(RowFull, 1, 9)

SampleRows == {RowFull, RowOdd, RowShort}

RECURSIVE SeqsUpTo(_, _)
SeqsUpTo(S, n) ==
    IF n = 0 THEN {<<>>}
    ELSE LET shorter == SeqsUpTo(S, n - 1)
         IN  shorter \cup {Append(q, x) : q \in {r \in shorter : Len(r) = n - 1}, x \in S}

NoTableDoc == [hasTable |-> FALSE, rows |-> <<>>]

\* what driver.page_source may hold: no cmc-table at all, or a table whose first
\* <tr> is the header, followed by up to n data rows
DocsUpTo(n) ==
    {NoTableDoc} \cup
    {[hasTable |-> TRUE, rows |-> <<HeaderRow>> \o d] : d \in SeqsUpTo(SampleRows, n)}

Docs == DocsUpTo(MaxRows)

NoSoup == [hasTable |-> FALSE, rows |-> <<"none">>]

\* ------------------------------------------------------------- extraction
crypto_info(cols) ==
    [rank |-> Strip(cols[2]),
     name |-> Strip(cols[3]),
     price |-> Strip(cols[4]),
     h1_change |-> Strip(cols[5]),
     h24_change |-> Strip(cols[6]),
     d7_change |-> Strip(cols[7]),
     market_cap |-> Strip(cols[8]),
     h24_volume |-> Strip(cols[9]),
     circulating_supply |-> Strip(cols[10])]

MinCells == 10

\* if len(cols) >= 10
RowAcceptedNonEmpty(cols) ==
    /\ Len(cols) >= MinCells
    /\ Strip(cols[3]) /= <<>>
    /\ Strip(cols[4]) /= <<>>

RowAccepted(cols) == Len(cols) >= MinCells

\* for row in rows: ... crypto_data.append(crypto_info)
RECURSIVE ParseRowsReversed(_)
ParseRowsReversed(rows) ==
    IF rows = <<>> THEN <<>>
    ELSE IF RowAccepted(Head(rows))
         THEN ParseRowsReversed(Tail(rows)) \o <<crypto_info(Head(rows))>>
         ELSE ParseRowsReversed(Tail(rows))

RECURSIVE ParseRows(_)
ParseRows(rows) ==
    IF rows = <<>> THEN <<>>
    ELSE IF RowAccepted(Head(rows))
         THEN <<crypto_info(Head(rows))>> \o ParseRows(Tail(rows))
         ELSE ParseRows(Tail(rows))

\* rows[1:]
DataRows(rows) == IF rows = <<>> THEN <<>> ELSE Tail(rows)

parse_crypto_data(soup) ==
    IF ~soup.hasTable THEN <<>> ELSE ParseRows(DataRows(soup.rows))

\* the number logged by "Found {len(rows)-1} cryptocurrency rows"
FoundLogged(soup) == Len(soup.rows) - 1

\* ------------------------------------------------------------------ state
VARIABLES
    pc,               \* position of the running operation ("idle" between operations)
    op,               \* the running top-level operation
    opSeq,            \* number of top-level operations started so far
    exit,             \* how the current with-block is being left
    exc,              \* the class of the exception in flight
    escaped,          \* functions the exception of this operation has propagated out of
    now,              \* wall clock, in days
    driver,           \* the local `driver` of get_chrome_driver
    liveSessions,     \* browser engine processes alive
    last_height, scroll_attempts,
    passes,           \* scroll passes performed by the current scroll_to_load_content
    max_scrolls,      \* the parameter of the current scroll_to_load_content
    heights,          \* the scroll heights the current scroll_to_load_content has read
    soup,             \* the parsed page source
    crypto_data,      \* the extracted record list
    conn,             \* the local `connection` of get_sql_connection (0 = None)
    openConns,        \* ids of connections open at the server
    tableExists, table, nextId,
    tx,               \* the uncommitted work of the current connection
    before,           \* the table as it was when the current operation started
    current_time, rows_to_insert, rows_inserted,
    arg,              \* the argument of the running gateway call (limit, days)
    ret,              \* value returned by the last gateway / scrape function
    log               \* messages logged by the current operation

ctlVars == <<pc, op, opSeq, exit, arg>>
excVars == <<exc, escaped>>
browserVars == <<driver, liveSessions, last_height, scroll_attempts, passes, max_scrolls,
                 heights, soup>>
connVars == <<conn, openConns>>
storeVars == <<tableExists, table, nextId, tx, before>>
insertVars == <<current_time, rows_to_insert, rows_inserted>>
vars == <<ctlVars, excVars, now, browserVars, crypto_data, connVars, storeVars, insertVars, ret, log>>

Heights == 0..MaxHeight

NoTx == [schema |-> FALSE, ins |-> <<>>, del |-> {}]
NoRet == [kind |-> "unset"]
NoTime == -1

Msg(m, n) == [msg |-> m, n |-> n]

Init ==
    /\ pc = "idle" /\ op = "none" /\ opSeq = 0 /\ exit = "none" /\ arg = 0
    /\ exc = "none" /\ escaped = {}
    /\ now = 0
    /\ driver = "none" /\ liveSessions = 0
    /\ last_height = 0 /\ scroll_attempts = 0 /\ passes = 0
    /\ max_scrolls = 0 /\ heights = <<>>
    /\ soup = NoSoup
    /\ crypto_data = <<>>
    /\ conn = 0 /\ openConns = {}
    /\ tableExists = FALSE /\ table = <<>> /\ nextId = 1
    /\ tx = NoTx /\ before = [exists |-> FALSE, rows |-> <<>>]
    /\ current_time = NoTime /\ rows_to_insert = <<>> /\ rows_inserted = 0
    /\ ret = NoRet
    /\ log = {}

\* the locals of a fresh call
FreshLocals ==
    /\ exit' = "none"
    /\ exc' = "none" /\ escaped' = {}
    /\ driver' = "none"
    /\ last_height' = 0 /\ scroll_attempts' = 0 /\ passes' = 0
    /\ max_scrolls' = 0 /\ heights' = <<>>
    /\ soup' = NoSoup
    /\ conn' = 0
    /\ tx' = NoTx
    /\ current_time' = NoTime /\ rows_to_insert' = <<>> /\ rows_inserted' = 0
    /\ ret' = NoRet
    /\ log' = {}

\* a top-level call; zero or more days have passed since the last one ended
StartOp(name, first) ==
    /\ pc = "idle"
    /\ opSeq < MaxOps
    /\ \E t \in now..MaxClock : now' = t
    /\ before' = [exists |-> tableExists, rows |-> table]
    /\ op' = name /\ opSeq' = opSeq + 1 /\ pc' = first
    /\ FreshLocals


\* -------------------------------------------------------------- exceptions
\* the exception classes the lower layers raise
DriverErrors == {"TimeoutException", "WebDriverException"}

\* scraper.py `except TimeoutException` around the table wait
CatchesTimeout(kind) == kind = "TimeoutException"

\* `except Exception` of the function fn: every class above derives from Exception
CatchesTimeoutOnly(fn, kind) == kind = "TimeoutException"

Catches(fn, kind) == TRUE

\* insert_crypto_data and get_sql_connection handle `except pyodbc.Error`
IsPyodbcError(kind) == kind = "pyodbc.Error"

\* ------------------------------------------------------------ main: scrape
MainStart ==
    /\ StartOp("main", "chrome")
    /\ Len(table) <= MaxTableAtRun
    /\ crypto_data' = <<>> /\ arg' = 0
    /\ UNCHANGED <<liveSessions, openConns, tableExists, table, nextId>>

\* the exception left the function fn and reaches main's `except Exception`
MainExcept(fn, kind) ==
    IF Catches("main", kind)
    THEN /\ log' = log \cup {Msg("Application error", 0)}
         /\ escaped' = escaped \cup {fn}
    ELSE /\ log' = log
         /\ escaped' = escaped \cup {fn, "main"}

\* the exception `kind` reaches the outer try of scrape_coinmarketcap:
\* `except Exception` logs it and returns []
ScrapeExcept(kind) ==
    /\ crypto_data' = <<>>
    /\ IF Catches("scrape_coinmarketcap", kind)
       THEN /\ ret' = [kind |-> "list", n |-> 0]
            /\ log' = log \cup {Msg("Error during scraping", 0)}
            /\ pc' = "main_check"
            /\ UNCHANGED escaped
       ELSE /\ ret' = ret
            /\ MainExcept("scrape_coinmarketcap", kind)
            /\ pc' = "idle"

\* the engine is quit iff the local `driver` is set
QuitIfStartedNormalOnly(d, how) == d = "started" /\ how = "normal"

QuitIfStartedNever(d, how) == FALSE

QuitIfStarted(d, how) == d = "started"

\* webdriver.Chrome(options=options)
ChromeStart ==
    /\ pc = "chrome"
    /\ \/ /\ driver' = "started" /\ liveSessions' = liveSessions + 1
          /\ pc' = "implicitly_wait"
          /\ UNCHANGED <<crypto_data, ret, log, exc, escaped>>
       \/ \* the engine does not start: driver stays None, the finally quits nothing
          /\ exc' = "WebDriverException"
          /\ ScrapeExcept("WebDriverException")
          /\ UNCHANGED <<driver, liveSessions>>
    /\ UNCHANGED <<op, opSeq, arg, exit, now, last_height, scroll_attempts, passes,
                   max_scrolls, heights, soup, connVars, storeVars, insertVars>>

\* a driver call inside the with-block (or before the yield) raises
DriverRaise ==
    /\ exit' = "raise" /\ exc' = "WebDriverException" /\ pc' = "driver_finally"

ImplicitlyWait ==
    /\ pc = "implicitly_wait"
    /\ \/ pc' = "get" /\ UNCHANGED <<exit, exc>>
       \/ DriverRaise
    /\ UNCHANGED <<op, opSeq, arg, now, browserVars, crypto_data, connVars, storeVars,
                   insertVars, ret, log, escaped>>

\* driver.get(COINMARKETCAP_URL)
Navigate ==
    /\ pc = "get"
    /\ \/ pc' = "wait_table" /\ UNCHANGED <<exit, exc>>
       \/ DriverRaise
    /\ UNCHANGED <<op, opSeq, arg, now, browserVars, crypto_data, connVars, storeVars,
                   insertVars, ret, log, escaped>>

\* except TimeoutException: logger.error(...); return []
OnTableTimeoutContinue == [exit |-> "none", pc |-> "scroll_init"]

OnTableTimeout == [exit |-> "return", pc |-> "driver_finally"]

\* WebDriverWait(...).until(presence_of_element_located(cmc-table))
WaitTable ==
    /\ pc = "wait_table"
    /\ \/ pc' = "scroll_init" /\ UNCHANGED <<exit, exc, log>>
       \/ \E kind \in DriverErrors :
             IF CatchesTimeout(kind)
             THEN /\ exit' = OnTableTimeout.exit /\ pc' = OnTableTimeout.pc
                  /\ log' = log \cup {Msg("Timeout waiting for table to load", 0)}
                  /\ exc' = kind
             ELSE /\ exit' = "raise" /\ exc' = kind /\ pc' = "driver_finally"
                  /\ UNCHANGED log
    /\ \* scroll_to_load_content(driver): max_scrolls takes its default
       max_scrolls' = IF pc' = "scroll_init" THEN MAX_SCROLL_ATTEMPTS ELSE max_scrolls
    /\ UNCHANGED <<op, opSeq, arg, now, driver, liveSessions, last_height, scroll_attempts,
                   passes, heights, soup, crypto_data, connVars, storeVars, insertVars, ret,
                   escaped>>

\* last_height = driver.execute_script("return document.body.scrollHeight")
ScrollInit ==
    /\ pc = "scroll_init"
    /\ \/ \E h \in Heights :
             /\ last_height' = h /\ scroll_attempts' = 0 /\ passes' = 0
             /\ heights' = <<h>>
             /\ pc' = "scroll_loop" /\ UNCHANGED <<exit, exc>>
       \/ DriverRaise /\ UNCHANGED <<last_height, scroll_attempts, passes, heights>>
    /\ UNCHANGED <<op, opSeq, arg, now, driver, liveSessions, max_scrolls, soup, crypto_data,
                   connVars,
                   storeVars, insertVars, ret, log, escaped>>

\* while scroll_attempts < max_scrolls
LoopGuardInclusive(attempts, cap) == attempts <= cap

LoopGuard(attempts, cap) == attempts < cap

\* scroll_attempts += 1
NextAttemptsStuck(attempts) == attempts

NextAttempts(attempts) == attempts + 1

\* one iteration of the while loop: scroll to the bottom in steps, then read the
\* height again
ScrollPass ==
    /\ pc = "scroll_loop"
    /\ LoopGuard(scroll_attempts, max_scrolls)
    /\ \/ \E new_height \in Heights :
             /\ passes' = passes + 1
             /\ heights' = Append(heights, new_height)
             /\ IF new_height = last_height
                THEN /\ pc' = "page_source"
                     /\ UNCHANGED <<last_height, scroll_attempts>>
                ELSE /\ last_height' = new_height
                     /\ scroll_attempts' = NextAttempts(scroll_attempts)
                     /\ pc' = "scroll_loop"
             /\ UNCHANGED <<exit, exc>>
       \/ \* a scrollTo or the height read raises
          /\ DriverRaise
          /\ passes' = passes + 1
          /\ UNCHANGED <<last_height, scroll_attempts, heights>>
    /\ UNCHANGED <<op, opSeq, arg, now, driver, liveSessions, max_scrolls, soup, crypto_data,
                   connVars,
                   storeVars, insertVars, ret, log, escaped>>

\* the while condition is false: the attempt cap is reached
ScrollExhausted ==
    /\ pc = "scroll_loop"
    /\ ~LoopGuard(scroll_attempts, max_scrolls)
    /\ pc' = "page_source"
    /\ UNCHANGED <<op, opSeq, arg, exit, now, browserVars, crypto_data, connVars, storeVars,
                   insertVars, ret, log, excVars>>

\* the locals of scroll_to_load_content are gone once it has returned
ScrollLocalsGone ==
    /\ last_height' = 0 /\ scroll_attempts' = 0 /\ passes' = 0
    /\ max_scrolls' = 0 /\ heights' = <<>>

\* soup = BeautifulSoup(driver.page_source, "html.parser")
PageSource ==
    /\ pc = "page_source"
    /\ \/ \E doc \in Docs :
             /\ soup' = doc
             /\ exit' = "normal" /\ pc' = "driver_finally"
             /\ UNCHANGED exc
       \/ DriverRaise /\ UNCHANGED soup
    /\ ScrollLocalsGone
    /\ UNCHANGED <<op, opSeq, arg, now, driver, liveSessions, crypto_data, connVars,
                   storeVars, insertVars, ret, log, escaped>>

\* leaving `with get_chrome_driver()`: the finally of the context manager, then
\* the continuation the exit selects
DriverFinally ==
    /\ pc = "driver_finally"
    /\ IF QuitIfStarted(driver, exit)
       THEN driver' = "quit" /\ liveSessions' = liveSessions - 1
       ELSE UNCHANGED <<driver, liveSessions>>
    /\ CASE exit = "normal" ->
              pc' = "parse" /\ UNCHANGED <<crypto_data, ret, log, escaped>>
         [] exit = "return" ->
              /\ crypto_data' = <<>>
              /\ ret' = [kind |-> "list", n |-> 0]
              /\ pc' = "main_check"
              /\ UNCHANGED <<log, escaped>>
         [] exit = "raise" -> ScrapeExcept(exc)
    /\ exit' = "none"
    /\ ScrollLocalsGone
    /\ UNCHANGED <<op, opSeq, arg, now, soup, connVars, storeVars, insertVars, exc>>

\* what parse_crypto_data logs
ParseLog(doc) ==
    IF doc.hasTable
    THEN {Msg("Found rows", FoundLogged(doc))}
    ELSE {Msg("Could not find cryptocurrency table", 0)}

\* crypto_data = parse_crypto_data(soup); return crypto_data
Parse ==
    /\ pc = "parse"
    /\ crypto_data' = parse_crypto_data(soup)
    /\ ret' = [kind |-> "list", n |-> Len(parse_crypto_data(soup))]
    /\ log' = log \cup ParseLog(soup)
              \cup {Msg("Successfully scraped", Len(parse_crypto_data(soup)))}
    /\ pc' = "main_check"
    /\ UNCHANGED <<op, opSeq, arg, exit, now, browserVars, connVars, storeVars, insertVars,
                   excVars>>

\* `not crypto_data`
NoDataNever(data) == FALSE

NoData(data) == data = <<>>

\* main: if not crypto_data: log and return
MainCheck ==
    /\ pc = "main_check"
    /\ IF NoData(crypto_data)
       THEN /\ log' = log \cup {Msg("Failed to scrape data", 0)}
            /\ pc' = "idle"
       ELSE /\ pc' = "save_entry"
            /\ UNCHANGED log
    /\ UNCHANGED <<op, opSeq, arg, exit, now, browserVars, crypto_data, connVars, storeVars,
                   insertVars, ret, excVars>>

\* ------------------------------------------------------ persistence gateway
Null == -1

\* int(crypto['rank']) if crypto['rank'].isdigit() else None
RankValue(text) == IF IsDigit(text) THEN ToInt(text) ELSE Null

\* the tuple built for one record; the id is assigned by IDENTITY(1,1) on insert
InsertRow(crypto, stamp) ==
    [rank |-> RankValue(crypto.rank),
     name |-> crypto.name,
     price |-> crypto.price,
     one_hour_change |-> crypto.h1_change,
     twenty_four_hour_change |-> crypto.h24_change,
     seven_day_change |-> crypto.d7_change,
     market_cap |-> crypto.market_cap,
     volume_24h |-> crypto.h24_volume,
     circulating_supply |-> crypto.circulating_supply,
     scraped_at |-> stamp]

\* rows_to_insert: one tuple per record, all stamped with the one current_time
RowsToInsertStampedPerRow(data, stamp) ==
    [i \in 1..Len(data) |-> InsertRow(data[i], stamp + i - 1)]

RowsToInsert(data, stamp) == [i \in 1..Len(data) |-> InsertRow(data[i], stamp)]

WithId(row, id) == [id |-> id] @@ row

\* the first k rows of the batch as written by executemany, ids from `first`
Written(rows, k, first) == [i \in 1..k |-> WithId(rows[i], first + i - 1)]

\* connection.rollback()
RollbackNothing(t) == t

Rollback(t) == NoTx

\* connection.commit() applied to the committed rows
CommitInsertsReplace(tbl, t) == t.ins

CommitInserts(tbl, t) == tbl \o t.ins

RECURSIVE SelectSeq2(_, _)
SelectSeq2(q, del) ==
    IF q = <<>> THEN <<>>
    ELSE IF Head(q).id \in del THEN SelectSeq2(Tail(q), del)
         ELSE <<Head(q)>> \o SelectSeq2(Tail(q), del)

CommitDeletes(tbl, t) == SelectSeq2(tbl, t.del)

\* what the record lists handed to save_to_sql_server look like
SaveInputs == {parse_crypto_data(d) : d \in Docs}

\* save_to_sql_server called directly
SaveStart ==
    /\ StartOp("save", "save_entry")
    /\ Len(table) <= MaxTableAtRun
    /\ \E data \in SaveInputs : crypto_data' = data
    /\ arg' = 0
    /\ UNCHANGED <<liveSessions, openConns, tableExists, table, nextId>>

\* where control goes when a gateway function has returned
AfterGateway == IF op = "main" THEN "main_result" ELSE "idle"

\* if not crypto_data: return False
SaveEntry ==
    /\ pc = "save_entry"
    /\ IF NoData(crypto_data)
       THEN /\ ret' = [kind |-> "bool", ok |-> FALSE]
            /\ log' = log \cup {Msg("No data to save", 0)}
            /\ pc' = AfterGateway
       ELSE /\ pc' = "connect"
            /\ UNCHANGED <<ret, log>>
    /\ UNCHANGED <<op, opSeq, arg, exit, now, browserVars, crypto_data, connVars, storeVars,
                   insertVars, excVars>>

\* the connection pyodbc.connect returns to the seq-th operation: a new one each
\* call, named after the call
NewConnId(seq) == seq

FirstBody ==
    CASE op \in {"main", "save"} -> "create_table"
      [] op = "recent" -> "recent_exec"
      [] op = "stats" -> "stats_exec"
      [] op = "delete" -> "delete_exec"

\* get_sql_connection: connection = pyodbc.connect(conn_str); yield connection
Connect ==
    /\ pc = "connect"
    /\ \/ LET id == NewConnId(opSeq) IN
          /\ conn' = id
          /\ openConns' = openConns \cup {id}
          /\ tx' = NoTx
          /\ pc' = FirstBody
          /\ UNCHANGED <<exit, exc, log>>
       \/ \* pyodbc.Error from connect: connection stays None
          /\ exit' = "raise" /\ exc' = "pyodbc.Error" /\ pc' = "conn_finally"
          /\ log' = log \cup {Msg("Database connection error", 0)}
          /\ UNCHANGED <<connVars, tx>>
    /\ UNCHANGED <<op, opSeq, arg, now, browserVars, crypto_data, tableExists, table, nextId,
                   before, insertVars, ret, escaped>>

\* a statement or commit raises pyodbc.Error; control goes to the handler at `to`
DbRaise(to) == exc' = "pyodbc.Error" /\ pc' = to

\* create_crypto_table(cursor): CREATE TABLE guarded by IF NOT EXISTS
CreateTable ==
    /\ pc = "create_table"
    /\ \/ /\ tx' = [tx EXCEPT !.schema = ~tableExists]
          /\ pc' = "commit_schema"
          /\ UNCHANGED exc
       \/ DbRaise("insert_except") /\ UNCHANGED tx
    /\ UNCHANGED <<op, opSeq, arg, exit, now, browserVars, crypto_data, connVars, tableExists,
                   table, nextId, before, insertVars, ret, log, escaped>>

\* connection.commit() after the schema statement
CommitSchema ==
    /\ pc = "commit_schema"
    /\ \/ /\ tableExists' = (tableExists \/ tx.schema)
          /\ tx' = [tx EXCEPT !.schema = FALSE]
          /\ pc' = "executemany"
          /\ UNCHANGED exc
       \/ DbRaise("insert_except") /\ UNCHANGED <<tableExists, tx>>
    /\ UNCHANGED <<op, opSeq, arg, exit, now, browserVars, crypto_data, connVars, table,
                   nextId, before, insertVars, ret, log, escaped>>

\* current_time = datetime.now(); build rows_to_insert; cursor.executemany(...)
\* The rows are sent one by one inside the open transaction: k of them are
\* written when the call ends, all of them iff it does not raise.
ExecuteMany ==
    /\ pc = "executemany"
    /\ current_time' = now
    /\ rows_to_insert' = RowsToInsert(crypto_data, now)
    /\ \E k \in 0..Len(crypto_data) :
          /\ tx' = [tx EXCEPT !.ins = Written(RowsToInsert(crypto_data, now), k, nextId)]
          /\ nextId' = nextId + k
          /\ IF k = Len(crypto_data)
             THEN pc' = "commit_rows" /\ UNCHANGED exc
             ELSE DbRaise("insert_except")
    /\ UNCHANGED <<op, opSeq, arg, exit, now, browserVars, crypto_data, connVars, tableExists,
                   table, before, rows_inserted, ret, log, escaped>>

\* rows_inserted = len(rows_to_insert)
CountInsertedRowcount(rows) == -1

CountInserted(rows) == Len(rows)

\* connection.commit(); rows_inserted = len(rows_to_insert); return rows_inserted;
\* back in save_to_sql_server: return True
CommitRows ==
    /\ pc = "commit_rows"
    /\ \/ /\ table' = CommitInserts(table, tx)
          /\ tx' = NoTx
          /\ rows_inserted' = CountInserted(rows_to_insert)
          /\ log' = log \cup {Msg("Successfully inserted", CountInserted(rows_to_insert)),
                              Msg("Data save completed", CountInserted(rows_to_insert))}
          /\ ret' = [kind |-> "bool", ok |-> TRUE]
          /\ exit' = "return" /\ pc' = "conn_finally"
          /\ UNCHANGED exc
       \/ /\ DbRaise("insert_except")
          /\ UNCHANGED <<table, tx, rows_inserted, log, ret, exit>>
    /\ UNCHANGED <<op, opSeq, arg, now, browserVars, crypto_data, connVars, tableExists,
                   nextId, before, current_time, rows_to_insert, escaped>>

\* except pyodbc.Error: connection.rollback(); raise
InsertExcept ==
    /\ pc = "insert_except"
    /\ IF IsPyodbcError(exc)
       THEN /\ tx' = Rollback(tx)
            /\ log' = log \cup {Msg("Error inserting data", 0)}
       ELSE UNCHANGED <<tx, log>>
    /\ exit' = "raise" /\ pc' = "conn_finally"
    /\ UNCHANGED <<op, opSeq, arg, now, browserVars, crypto_data, connVars, tableExists, table,
                   nextId, before, insertVars, ret, excVars>>

\* the value a gateway function returns from its `except Exception`
ExceptReturn(o, r) ==
    CASE o \in {"main", "save"} -> [kind |-> "bool", ok |-> FALSE]
      [] o = "recent" -> [kind |-> "None"]
      [] o = "stats" -> IF r.kind = "stats" THEN r ELSE [kind |-> "stats", stats |-> <<>>]
      [] o = "delete" -> [kind |-> "int", n |-> 0]

GatewayFn(o) ==
    CASE o \in {"main", "save"} -> "save_to_sql_server"
      [] o = "recent" -> "get_recent_data"
      [] o = "stats" -> "get_crypto_statistics"
      [] o = "delete" -> "delete_old_data"

\* what the `except Exception` of a gateway function logs
ExceptMessage(o) ==
    CASE o \in {"main", "save"} -> "Failed to save data to SQL Server"
      [] o = "recent" -> "Error retrieving data"
      [] o = "stats" -> "Error getting statistics"
      [] o = "delete" -> "Error deleting old data"

\* connection.close() in the finally of get_sql_connection
CloseConnNever(open, c) == open

\* the connections left open once the finally of get_sql_connection has run
CloseConn(open, c) == IF c /= 0 THEN open \ {c} ELSE open

\* leaving `with get_sql_connection()`: the finally closes the connection (the
\* server discards what it had not committed), then the function returns its
\* value or the value of its except clause
ConnFinally ==
    /\ pc = "conn_finally"
    /\ openConns' = CloseConn(openConns, conn)
    /\ tx' = NoTx
    /\ CASE exit /= "raise" ->
              /\ pc' = AfterGateway
              /\ UNCHANGED <<ret, log, escaped>>
         [] exit = "raise" /\ Catches(GatewayFn(op), exc) ->
              /\ ret' = ExceptReturn(op, ret)
              /\ log' = log \cup {Msg(ExceptMessage(op), 0)}
              /\ pc' = AfterGateway
              /\ UNCHANGED escaped
         [] exit = "raise" /\ ~Catches(GatewayFn(op), exc) ->
              /\ ret' = ret
              /\ pc' = "idle"
              /\ IF op = "main"
                 THEN MainExcept(GatewayFn(op), exc)
                 ELSE log' = log /\ escaped' = escaped \cup {GatewayFn(op)}
    /\ exit' = "none"
    /\ UNCHANGED <<op, opSeq, arg, now, browserVars, crypto_data, conn, tableExists,
                   table, nextId, before, insertVars, exc>>

\* main: if save_to_sql_server(crypto_data): log success else log failure
MainResult ==
    /\ pc = "main_result"
    /\ log' = log \cup
              (IF ret.ok THEN {Msg("Successfully saved", Len(crypto_data))}
               ELSE {Msg("Failed to save data to database", 0)})
    /\ pc' = "idle"
    /\ UNCHANGED <<op, opSeq, arg, exit, now, browserVars, crypto_data, connVars, storeVars,
                   insertVars, ret, excVars>>

\* ------------------------------------------------------- reads and pruning
Min(a, b) == IF a < b THEN a ELSE b

Stamps(tbl) == {tbl[i].scraped_at : i \in 1..Len(tbl)}

SetMin(S) == CHOOSE x \in S : \A y \in S : x <= y
SetMax(S) == CHOOSE x \in S : \A y \in S : x >= y

\* the scraped_at column of the rows, newest first
RECURSIVE StampsDesc(_)
StampsDesc(tbl) ==
    IF tbl = <<>> THEN <<>>
    ELSE LET m == SetMax(Stamps(tbl))
             i == CHOOSE j \in 1..Len(tbl) : tbl[j].scraped_at = m
         IN  <<m>> \o StampsDesc(SubSeq(tbl, 1, i - 1) \o SubSeq(tbl, i + 1, Len(tbl)))

\* SELECT TOP (limit) ... ORDER BY scraped_at DESC: the result is kept as its
\* scraped_at column
RecentResult(tbl, limit) == SubSeq(StampsDesc(tbl), 1, Min(limit, Len(tbl)))

GetRecentStart ==
    /\ \E limit \in 0..MaxRows : arg' = limit
    /\ StartOp("recent", "connect")
    /\ UNCHANGED <<liveSessions, crypto_data, openConns, tableExists, table,
                   nextId>>

\* cursor.execute(query, limit); results = cursor.fetchall(); return results
\* The statement fails when the table does not exist, and may fail otherwise.
RecentExec ==
    /\ pc = "recent_exec"
    /\ \/ /\ tableExists
          /\ ret' = [kind |-> "rows", stamps |-> RecentResult(table, arg)]
          /\ exit' = "return"
          /\ UNCHANGED exc
       \/ /\ exit' = "raise" /\ exc' = "pyodbc.Error"
          /\ UNCHANGED ret
    /\ pc' = "conn_finally"
    /\ UNCHANGED <<op, opSeq, arg, now, browserVars, crypto_data, connVars, storeVars,
                   insertVars, log, escaped>>

StatKeys == <<"total_records", "unique_cryptos", "first_scrape", "total_scrapes">>

StatValue(key, tbl) ==
    CASE key = "total_records" -> <<Len(tbl)>>
      [] key = "unique_cryptos" -> <<Cardinality({tbl[i].name : i \in 1..Len(tbl)})>>
      [] key = "first_scrape" ->
            IF tbl = <<>> THEN <<Null, Null>>
            ELSE <<SetMin(Stamps(tbl)), SetMax(Stamps(tbl))>>
      [] key = "total_scrapes" -> <<Cardinality(Stamps(tbl))>>

\* the stats dictionary after the first k of the four queries
StatsAfter(k, tbl) == [i \in 1..k |-> <<StatKeys[i], StatValue(StatKeys[i], tbl)>>]

GetStatisticsStart ==
    /\ StartOp("stats", "connect")
    /\ arg' = 0
    /\ UNCHANGED <<liveSessions, crypto_data, openConns, tableExists, table,
                   nextId>>

\* the four aggregate queries, filling stats one key group at a time; an error
\* leaves the keys filled so far, and `return stats` follows either way
StatsExec ==
    /\ pc = "stats_exec"
    /\ \E k \in 0..Len(StatKeys) :
          /\ k > 0 => tableExists
          /\ ret' = [kind |-> "stats", stats |-> StatsAfter(k, table)]
          /\ IF k = Len(StatKeys)
             THEN exit' = "return" /\ UNCHANGED exc
             ELSE exit' = "raise" /\ exc' = "pyodbc.Error"
    /\ pc' = "conn_finally"
    /\ UNCHANGED <<op, opSeq, arg, now, browserVars, crypto_data, connVars, storeVars,
                   insertVars, log, escaped>>

\* WHERE scraped_at < DATEADD(day, -days, GETDATE())
\* WHERE scraped_at < DATEADD(day, -days, GETDATE())
IsOldInclusive(row, days, today) == row.scraped_at <= today - days

IsOld(row, days, today) == row.scraped_at < today - days

OldIds(tbl, days, today) == {tbl[i].id : i \in {j \in 1..Len(tbl) : IsOld(tbl[j], days, today)}}

DeleteOldStart ==
    /\ \E days \in 0..MaxClock : arg' = days
    /\ StartOp("delete", "connect")
    /\ UNCHANGED <<liveSessions, crypto_data, openConns, tableExists, table,
                   nextId>>

\* cursor.execute(delete_query, -days); rows_deleted = cursor.rowcount
DeleteExec ==
    /\ pc = "delete_exec"
    /\ \/ /\ tableExists
          /\ tx' = [tx EXCEPT !.del = OldIds(table, arg, now)]
          /\ pc' = "delete_commit"
          /\ UNCHANGED <<exit, exc>>
       \/ /\ exit' = "raise" /\ exc' = "pyodbc.Error" /\ pc' = "conn_finally"
          /\ UNCHANGED tx
    /\ UNCHANGED <<op, opSeq, arg, now, browserVars, crypto_data, connVars, tableExists, table,
                   nextId, before, insertVars, ret, log, escaped>>

\* connection.commit(); return rows_deleted
DeleteCommit ==
    /\ pc = "delete_commit"
    /\ \/ /\ table' = CommitDeletes(table, tx)
          /\ ret' = [kind |-> "int", n |-> Cardinality(tx.del)]
          /\ log' = log \cup {Msg("Deleted old records", Cardinality(tx.del))}
          /\ tx' = NoTx
          /\ exit' = "return"
          /\ UNCHANGED exc
       \/ /\ exit' = "raise" /\ exc' = "pyodbc.Error"
          /\ UNCHANGED <<table, ret, tx, log>>
    /\ pc' = "conn_finally"
    /\ UNCHANGED <<op, opSeq, arg, now, browserVars, crypto_data, connVars, tableExists,
                   nextId, before, insertVars, escaped>>

\* ---------------------------------------------------------- specification
Next ==
    \/ MainStart \/ ChromeStart \/ ImplicitlyWait \/ Navigate \/ WaitTable
    \/ ScrollInit \/ ScrollPass \/ ScrollExhausted \/ PageSource \/ DriverFinally
    \/ Parse \/ MainCheck \/ MainResult
    \/ SaveStart \/ SaveEntry \/ Connect \/ CreateTable \/ CommitSchema
    \/ ExecuteMany \/ CommitRows \/ InsertExcept \/ ConnFinally
    \/ GetRecentStart \/ RecentExec
    \/ GetStatisticsStart \/ StatsExec
    \/ DeleteOldStart \/ DeleteExec \/ DeleteCommit

Spec == Init /\ [][Next]_vars

\* One batch, from the page source to the end of main: the state right after the
\* with-block of scrape_coinmarketcap was left normally, for documents of up to
\* MaxDocRows data rows, over a table that does not exist yet or holds the row
\* an earlier run stored on day 0.
EarlierTables == {<<>>, <<WithId(InsertRow(crypto_info(RowFull), 0), 1)>>}

InitBatch ==
    /\ pc = "parse" /\ op = "main" /\ opSeq = 1 /\ exit = "none" /\ arg = 0
    /\ exc = "none" /\ escaped = {}
    /\ now \in 0..MaxClock
    /\ driver = "quit" /\ liveSessions = 0
    /\ last_height = 0 /\ scroll_attempts = 0 /\ passes = 0
    /\ max_scrolls = 0 /\ heights = <<>>
    /\ soup \in DocsUpTo(MaxDocRows)
    /\ crypto_data = <<>>
    /\ conn = 0 /\ openConns = {}
    /\ table \in EarlierTables
    /\ tableExists = (table /= <<>>) /\ nextId = Len(table) + 1
    /\ tx = NoTx /\ before = [exists |-> tableExists, rows |-> table]
    /\ current_time = NoTime /\ rows_to_insert = <<>> /\ rows_inserted = 0
    /\ ret = NoRet
    /\ log = {}

NextBatch ==
    \/ Parse \/ MainCheck \/ MainResult
    \/ SaveEntry \/ Connect \/ CreateTable \/ CommitSchema
    \/ ExecuteMany \/ CommitRows \/ InsertExcept \/ ConnFinally

SpecBatch == InitBatch /\ [][NextBatch]_vars

\* Pruning and reading over a table that earlier runs have filled: up to two
\* rows stored between MaxAge days before day 0 and day 0, in insertion order,
\* or no table at all.
StoredRow(id, stamp) == WithId(InsertRow(crypto_info(RowFull), stamp), id)

StoredTables ==
    {<<>>}
    \cup {<<StoredRow(1, s)>> : s \in (0 - MaxAge)..0}
    \cup {<<StoredRow(1, s[1]), StoredRow(2, s[2])>> :
            s \in {t \in ((0 - MaxAge)..0) \X ((0 - MaxAge)..0) : t[1] <= t[2]}}

InitPrune ==
    /\ pc = "idle" /\ op = "none" /\ opSeq = 0 /\ exit = "none" /\ arg = 0
    /\ exc = "none" /\ escaped = {}
    /\ now = 0
    /\ driver = "none" /\ liveSessions = 0
    /\ last_height = 0 /\ scroll_attempts = 0 /\ passes = 0
    /\ max_scrolls = 0 /\ heights = <<>>
    /\ soup = NoSoup
    /\ crypto_data = <<>>
    /\ conn = 0 /\ openConns = {}
    /\ table \in StoredTables
    /\ tableExists \in {TRUE, table /= <<>>} /\ nextId = Len(table) + 1
    /\ tx = NoTx /\ before = [exists |-> tableExists, rows |-> table]
    /\ current_time = NoTime /\ rows_to_insert = <<>> /\ rows_inserted = 0
    /\ ret = NoRet
    /\ log = {}

NextPrune ==
    \/ DeleteOldStart \/ DeleteExec \/ DeleteCommit
    \/ GetRecentStart \/ RecentExec
    \/ GetStatisticsStart \/ StatsExec
    \/ Connect \/ ConnFinally

SpecPrune == InitPrune /\ [][NextPrune]_vars

\* One call scroll_to_load_content(driver, max_scrolls) inside the with-block of
\* a run, for every max_scrolls from 0 to MAX_SCROLL_ATTEMPTS, followed by the
\* page source read, the exit of the with-block and the extraction.
InitScroll ==
    /\ pc = "scroll_init" /\ op = "main" /\ opSeq = 1 /\ exit = "none" /\ arg = 0
    /\ exc = "none" /\ escaped = {}
    /\ now = 0
    /\ driver = "started" /\ liveSessions = 1
    /\ last_height = 0 /\ scroll_attempts = 0 /\ passes = 0
    /\ max_scrolls \in 0..MAX_SCROLL_ATTEMPTS /\ heights = <<>>
    /\ soup = NoSoup
    /\ crypto_data = <<>>
    /\ conn = 0 /\ openConns = {}
    /\ tableExists = FALSE /\ table = <<>> /\ nextId = 1
    /\ tx = NoTx /\ before = [exists |-> FALSE, rows |-> <<>>]
    /\ current_time = NoTime /\ rows_to_insert = <<>> /\ rows_inserted = 0
    /\ ret = NoRet
    /\ log = {}

NextScroll ==
    \/ ScrollInit \/ ScrollPass \/ ScrollExhausted
    \/ PageSource \/ DriverFinally \/ Parse

SpecScroll == InitScroll /\ [][NextScroll]_vars

\* ------------------------------------------------------------------ claims
RunOps == {"main", "save"}

Logged(m) == \E e \in log : e.msg = m

\* the rows the current operation has added to the committed table
NewRows == SubSeq(table, Len(before.rows) + 1, Len(table))

SavedOk == ret.kind = "bool" /\ ret.ok

\* the data rows of a document that hold at least 10 cells, by position
WellFormedIdx(doc) ==
    IF doc.hasTable THEN {i \in 2..Len(doc.rows) : Len(doc.rows[i]) >= MinCells} ELSE {}

\* the data rows of a document that hold fewer than 10 cells
ShortIdx(doc) ==
    IF doc.hasTable THEN {i \in 2..Len(doc.rows) : Len(doc.rows[i]) < MinCells} ELSE {}

\* the position in the output of the record of data row i
OutputIndex(doc, i) == Cardinality({j \in WellFormedIdx(doc) : j <= i})

\* C1: once insert_crypto_data has failed with a write error, the committed rows
\* are exactly those from before the call, nothing of the batch is left pending
\* in the transaction, the error travels on to the caller as an exception, and
\* the caller ends with a failure.
C1_AllOrNothing ==
    (op \in RunOps /\ Logged("Error inserting data")) =>
        /\ table = before.rows
        /\ tx.ins = <<>>
        /\ exc = "pyodbc.Error"
        /\ pc \in {"conn_finally", "main_result", "idle"}
        /\ pc = "conn_finally" => exit = "raise"
        /\ pc /= "conn_finally" => ret = [kind |-> "bool", ok |-> FALSE]

\* the write error hits the last row of a two-row batch, one row being written
\* already, over a table that held a row before
C1_Witness ==
    /\ op \in RunOps /\ pc = "conn_finally" /\ Logged("Error inserting data")
    /\ Len(before.rows) = 1 /\ before.rows[1].id = 1
    /\ Len(rows_to_insert) = 2
    /\ nextId = 3

\* C2: the scroll loop performs at most MAX_SCROLL_ATTEMPTS passes; while it
\* keeps looping every pass so far was a non-stable one and raised the attempt
\* counter by one, and when it is left the passes exceed the counter by at most
\* the one stable pass.
C2_ScrollBounded ==
    /\ passes <= MAX_SCROLL_ATTEMPTS
    /\ scroll_attempts <= MAX_SCROLL_ATTEMPTS
    /\ pc = "scroll_loop" => scroll_attempts = passes
    /\ pc = "page_source" => passes \in {scroll_attempts, scroll_attempts + 1}

\* the height changed on every read and the loop stopped at the cap
C2_Witness ==
    /\ pc = "page_source"
    /\ passes = MAX_SCROLL_ATTEMPTS /\ scroll_attempts = MAX_SCROLL_ATTEMPTS

InsideWith ==
    {"implicitly_wait", "get", "wait_table", "scroll_init", "scroll_loop", "page_source",
     "driver_finally"}

\* C3: outside the with-block of scrape_coinmarketcap no browser engine is alive:
\* whichever way the block was left, a started engine has been quit.
C3_SessionReleased ==
    pc \notin InsideWith => (liveSessions = 0 /\ driver /= "started")

\* a driver call raised after the engine had started, and the engine was quit
C3_Witness ==
    /\ pc = "main_check" /\ driver = "quit" /\ exc = "WebDriverException"
    /\ Logged("Error during scraping")

\* C4: with an empty record list no connection is opened, nothing is pending or
\* written and the schema is not created; main reports the failed scrape and
\* save_to_sql_server returns False.
C4_EmptyNoWrite ==
    (op \in RunOps /\ crypto_data = <<>>) =>
        /\ conn = 0 /\ openConns = {} /\ tx = NoTx
        /\ table = before.rows /\ tableExists = before.exists
        /\ pc = "idle" =>
              IF op = "main"
              THEN Logged("Failed to scrape data") /\ ~Logged("Successfully saved")
              ELSE ret = [kind |-> "bool", ok |-> FALSE]

\* main has ended on a document whose table holds the header row only
C4_Witness ==
    /\ pc = "idle" /\ op = "main"
    /\ soup.hasTable /\ Len(soup.rows) = 1
    /\ crypto_data = <<>> /\ Logged("Failed to scrape data")

\* C5: after a successful run on a document, the table holds the earlier rows
\* plus one new row per data row of at least 10 cells, in order and with that
\* row's name and price, and every new row carries the one current_time of the
\* batch.
C5_OneRowPerWellFormed ==
    (pc = "idle" /\ op = "main" /\ SavedOk) =>
        /\ SubSeq(table, 1, Len(before.rows)) = before.rows
        /\ Len(NewRows) = Cardinality(WellFormedIdx(soup))
        /\ \A i \in WellFormedIdx(soup) :
              /\ NewRows[OutputIndex(soup, i)].name = Strip(soup.rows[i][3])
              /\ NewRows[OutputIndex(soup, i)].price = Strip(soup.rows[i][4])
        /\ \A i \in 1..Len(NewRows) : NewRows[i].scraped_at = current_time
        /\ \A i, j \in 1..Len(NewRows) : NewRows[i].scraped_at = NewRows[j].scraped_at

\* three data rows, one of them short: exactly two rows are persisted, on day 1,
\* after the row stored on day 0
C5_Witness ==
    /\ pc = "idle" /\ op = "main" /\ SavedOk
    /\ Len(soup.rows) = 4 /\ Cardinality(ShortIdx(soup)) = 1
    /\ Len(before.rows) = 1 /\ Len(NewRows) = 2 /\ current_time = 1

\* C6: no exception leaves scrape_coinmarketcap, a gateway function or main, and
\* an operation in which a lower layer raised ends with its failure outcome.
C6_NothingEscapes ==
    /\ escaped = {}
    /\ (pc = "idle" /\ exc /= "none") =>
          CASE op = "main" ->
                 Logged("Failed to scrape data") \/ Logged("Failed to save data to database")
            [] op = "save" -> ret = [kind |-> "bool", ok |-> FALSE]
            [] op = "recent" -> ret = [kind |-> "None"]
            [] op = "delete" -> ret = [kind |-> "int", n |-> 0]
            [] op = "stats" -> ret.kind = "stats" /\ Len(ret.stats) < Len(StatKeys)

\* main has ended after the batch insert raised
C6_Witness ==
    /\ pc = "idle" /\ op = "main" /\ exc = "pyodbc.Error"
    /\ Logged("Error inserting data") /\ Logged("Failed to save data to database")

\* C7 as stated: the value returned on success carries the count of rows
\* written, equal to the rows the batch insert committed.
C7_CountReturned ==
    (pc = "idle" /\ op \in RunOps /\ SavedOk) =>
        ("rows" \in DOMAIN ret /\ ret.rows = Len(NewRows))

\* C7 amended: the value returned on success is the boolean alone; the count of
\* rows written is logged, and the logged count equals the rows committed.
C7_CountLoggedNotReturned ==
    (pc = "idle" /\ op \in RunOps /\ SavedOk) =>
        /\ DOMAIN ret = {"kind", "ok"}
        /\ rows_inserted = Len(NewRows)
        /\ Msg("Data save completed", Len(NewRows)) \in log
        /\ \A e \in log : e.msg = "Data save completed" => e.n = Len(NewRows)
        /\ op = "main" => Msg("Successfully saved", Len(NewRows)) \in log

\* a direct save of two records has succeeded
C7_Witness ==
    /\ pc = "idle" /\ op = "save" /\ SavedOk
    /\ Len(NewRows) = 2

ConnPcs ==
    {"create_table", "commit_schema", "executemany", "commit_rows", "insert_except",
     "conn_finally", "recent_exec", "stats_exec", "delete_exec", "delete_commit"}

\* C8: at most one connection is open, it is the one the running operation
\* opened for itself, and once the gateway function has returned no connection
\* is open.
C8_ConnectionsScoped ==
    /\ Cardinality(openConns) <= 1
    /\ openConns /= {} => (openConns = {conn} /\ conn = opSeq /\ pc \in ConnPcs)
    /\ pc \in {"idle", "main_result"} => openConns = {}

\* delete_old_data, run as the second operation, has failed on its own
\* connection and returned
C8_Witness ==
    /\ pc = "idle" /\ op = "delete" /\ opSeq = 2
    /\ conn = 2 /\ exc = "pyodbc.Error"
    /\ ret = [kind |-> "int", n |-> 0]

\* parse_crypto_data has run on the document in soup
Parsed == op = "main" /\ soup /= NoSoup /\ pc \notin {"driver_finally", "parse"}

ExtractedInOrder ==
    /\ Len(crypto_data) = Cardinality(WellFormedIdx(soup))
    /\ \A i \in WellFormedIdx(soup) :
          crypto_data[OutputIndex(soup, i)] = crypto_info(soup.rows[i])

\* C9 as stated: one record per data row of at least 10 cells, in source order,
\* and the number of skipped rows is reported by the extractor.
C9_SkippedCounted ==
    Parsed =>
        /\ ExtractedInOrder
        /\ \E e \in log :
              /\ e.msg \in {"Skipped rows", "Error parsing row"}
              /\ e.n = Cardinality(ShortIdx(soup))

\* C9 amended: one record per data row of at least 10 cells, in source order,
\* the header skipped; short rows are left out, and the extractor reports the
\* number of data rows found and nothing about the rows it skipped.
C9_ExtractedInOrder ==
    Parsed =>
        /\ ExtractedInOrder
        /\ soup.hasTable => Msg("Found rows", Len(soup.rows) - 1) \in log
        /\ \A e \in log : e.msg \notin {"Skipped rows", "Error parsing row"}

\* a short row between two different full rows: two records, in source order
C9_Witness ==
    /\ Parsed /\ pc = "main_check"
    /\ soup.rows = <<HeaderRow, RowOdd, RowShort, RowFull>>
    /\ Len(crypto_data) = 2
    /\ crypto_data[1].rank = <<"-">> /\ crypto_data[2].rank = <<"1", "2">>

\* C10: after the table wait has timed out the run only leaves the with-block
\* and ends: no scroll pass, no page source read, no extraction, no connection,
\* no row written; the engine is quit, the result is empty and main reports the
\* failed scrape.
C10_TimeoutAborts ==
    Logged("Timeout waiting for table to load") =>
        /\ pc \in {"driver_finally", "main_check", "idle"}
        /\ passes = 0 /\ soup = NoSoup
        /\ conn = 0 /\ openConns = {}
        /\ table = before.rows /\ tableExists = before.exists
        /\ pc /= "driver_finally" =>
              (liveSessions = 0 /\ driver = "quit" /\ crypto_data = <<>>)
        /\ pc = "idle" => Logged("Failed to scrape data")

\* main has ended after the timeout, the engine quit
C10_Witness ==
    /\ pc = "idle" /\ op = "main" /\ driver = "quit"
    /\ Logged("Timeout waiting for table to load")

\* ---- C11
\* the rows of a table that a prune with a retention of `days` on day `today`
\* has to keep, in their stored order
RECURSIVE Retained(_, _, _)
Retained(rows, days, today) ==
    IF rows = <<>> THEN <<>>
    ELSE IF Head(rows).scraped_at >= today - days
         THEN <<Head(rows)>> \o Retained(Tail(rows), days, today)
         ELSE Retained(Tail(rows), days, today)

PruneDone == pc = "idle" /\ op = "delete"

\* C11: delete_old_data(days) removes exactly the stored rows whose scraped_at
\* is earlier than now minus days, leaves every other row as it was and returns
\* the number of rows it removed; a call that fails removes nothing and returns
\* 0, and at every point of a call the table holds either all the rows it had
\* before or exactly the retained ones.
C11_PruneExact ==
    op = "delete" =>
        /\ table \in {before.rows, Retained(before.rows, arg, now)}
        /\ PruneDone =>
              /\ ret.kind = "int"
              /\ ret.n = Len(before.rows) - Len(table)
              /\ Logged("Deleted old records") =>
                    table = Retained(before.rows, arg, now)
              /\ ~Logged("Deleted old records") => table = before.rows

\* a table with one row older than the retention and one younger, pruned with a
\* retention of at least a day: only the older row is gone and 1 is returned
C11_Witness ==
    /\ PruneDone
    /\ arg >= 1
    /\ Len(before.rows) = 2
    /\ before.rows[1].scraped_at < now - arg
    /\ before.rows[2].scraped_at > now - arg
    /\ table = <<before.rows[2]>>
    /\ ret = [kind |-> "int", n |-> 1]

\* ---- C12
\* the data rows of a document with at least 10 cells and a name and a price
\* that are not blank
NamedIdx(doc) ==
    {i \in WellFormedIdx(doc) :
        Strip(doc.rows[i][3]) /= <<>> /\ Strip(doc.rows[i][4]) /= <<>>}

\* C12 as stated: every extracted record and every stored row has a non-empty
\* name and a price, rows with a blank name or price cell being discarded by
\* the extractor.
C12_NamePricePresent ==
    /\ Parsed => Len(crypto_data) = Cardinality(NamedIdx(soup))
    /\ \A i \in 1..Len(crypto_data) :
          crypto_data[i].name /= <<>> /\ crypto_data[i].price /= <<>>
    /\ \A i \in 1..Len(table) : table[i].name /= <<>> /\ table[i].price /= <<>>

\* C12 amended: every extracted record carries a name and a price field holding
\* the stripped text of the third and fourth cell of its row, blank or not; a
\* row is left out only for having fewer than 10 cells, so a row with a blank
\* name is extracted with an empty name and stored with it.
C12_BlankNameKept ==
    /\ Parsed =>
          /\ Len(crypto_data) = Cardinality(WellFormedIdx(soup))
          /\ \A i \in 1..Len(crypto_data) :
                {"name", "price"} \subseteq DOMAIN crypto_data[i]
          /\ \A i \in WellFormedIdx(soup) \ NamedIdx(soup) :
                /\ crypto_data[OutputIndex(soup, i)].name = Strip(soup.rows[i][3])
                /\ crypto_data[OutputIndex(soup, i)].price = Strip(soup.rows[i][4])
    /\ (pc = "idle" /\ op = "main" /\ SavedOk) =>
          /\ Len(NewRows) = Len(crypto_data)
          /\ \A i \in 1..Len(NewRows) :
                /\ NewRows[i].name = crypto_data[i].name
                /\ NewRows[i].price = crypto_data[i].price

\* a row of 11 cells whose name cell holds blanks only is stored with an empty
\* name
C12_Witness ==
    /\ pc = "idle" /\ op = "main" /\ SavedOk
    /\ soup.rows = <<HeaderRow, RowFull, RowOdd>>
    /\ Len(NewRows) = 2
    /\ NewRows[2].name = <<>> /\ NewRows[2].price = <<"$", "7">>

\* ---- C13
Ids(tbl) == {tbl[i].id : i \in 1..Len(tbl)}

\* C13: in every step a stored row that stays is left exactly as it was and in
\* its place in the order; rows appear only at the end of the table, only in
\* the commit of a batch insert, and then the whole batch at once; rows
\* disappear only in the commit of delete_old_data, and only rows whose
\* scraped_at is earlier than now minus the retention.
C13_AppendOnly ==
    [][ /\ \A i \in 1..Len(table) : \A j \in 1..Len(table') :
              table[i].id = table'[j].id => table[i] = table'[j]
        /\ Ids(table') \ Ids(table) /= {} =>
              /\ op \in RunOps /\ pc = "commit_rows" /\ pc' = "conn_finally"
              /\ table' = table \o SubSeq(table', Len(table) + 1, Len(table'))
              /\ Len(table') - Len(table) = Len(rows_to_insert)
              /\ \A j \in (Len(table) + 1)..Len(table') :
                    table'[j].scraped_at = current_time
        /\ Ids(table) \ Ids(table') /= {} =>
              /\ op = "delete" /\ pc = "delete_commit"
              /\ table' = SelectSeq2(table, Ids(table) \ Ids(table'))
              /\ \A i \in 1..Len(table) :
                    table[i].id \notin Ids(table') => table[i].scraped_at < now - arg
      ]_vars

\* a second run has added its batch, stamped later, behind the rows of the
\* first, which are as they were
C13_Witness ==
    /\ pc = "idle" /\ op = "main" /\ SavedOk
    /\ before.rows /= <<>>
    /\ Len(table) > Len(before.rows)
    /\ SubSeq(table, 1, Len(before.rows)) = before.rows
    /\ before.rows[1].scraped_at < table[Len(table)].scraped_at

\* ---- C14
\* the passes after which the height read equals the height read before it
StablePasses(hs) == {k \in 1..(Len(hs) - 1) : hs[k + 1] = hs[k]}

\* C14: inside the loop every pass so far has found a new height, recorded it
\* and counted it; the loop is left either by the first pass that finds the
\* height unchanged, which is not counted (Stable), or, with no such pass, when
\* the counter has reached max_scrolls (Exhausted). The passes performed are
\* min(max_scrolls, index of the first pass with an unchanged height), and none
\* when max_scrolls is 0.
C14_TwoExits ==
    /\ pc = "scroll_loop" =>
          /\ Len(heights) = passes + 1
          /\ StablePasses(heights) = {}
          /\ scroll_attempts = passes /\ scroll_attempts <= max_scrolls
          /\ last_height = heights[Len(heights)]
    /\ pc = "page_source" =>
          /\ Len(heights) = passes + 1
          /\ IF StablePasses(heights) /= {}
             THEN /\ passes = SetMin(StablePasses(heights))
                  /\ passes <= max_scrolls
                  /\ scroll_attempts = passes - 1
                  /\ last_height = heights[passes]
             ELSE /\ passes = max_scrolls
                  /\ scroll_attempts = max_scrolls
                  /\ last_height = heights[Len(heights)]
          /\ max_scrolls = 0 => passes = 0

\* with room for two counted passes the height grows once and is then found
\* unchanged: the loop is left after the second pass with one pass counted
C14_Witness ==
    /\ pc = "page_source"
    /\ max_scrolls = 2
    /\ heights = <<0, 1, 1>>
    /\ passes = 2 /\ scroll_attempts = 1 /\ last_height = 1

\* ---- C15
\* C15: a run uses its browser session and its database connection one after
\* the other: never more than one engine alive or more than one connection
\* open, never an engine alive while a connection is open; while the run is in
\* the with-block of the scraper no connection has been opened, and when it
\* extracts the records and from then on (the save and its connection
\* included) the engine it started has been quit.
C15_SessionThenConnection ==
    /\ liveSessions <= 1
    /\ Cardinality(openConns) <= 1
    /\ ~(liveSessions > 0 /\ openConns /= {})
    /\ op = "main" =>
          /\ pc \in InsideWith \cup {"chrome"} => (openConns = {} /\ conn = 0)
          /\ pc \in {"parse", "main_check", "save_entry", "connect", "main_result"} \cup ConnPcs =>
                (liveSessions = 0 /\ driver /= "started")
          /\ liveSessions > 0 => soup = NoSoup \/ pc = "driver_finally"

\* the run holds its connection with the batch written and not yet committed;
\* the engine that delivered the page has been quit
C15_Witness ==
    /\ op = "main" /\ pc = "commit_rows"
    /\ openConns = {conn} /\ conn /= 0
    /\ driver = "quit" /\ liveSessions = 0
    /\ soup /= NoSoup /\ crypto_data /= <<>>

====
